---- MODULE Spec2Model ----
(***************************************************************************)
(* Model of publang's embedding-and-retrieval pipeline:                    *)
(*   utils/oai.py    reexecutor (tenacity retry), get_openai_embedding and *)
(*                   get_openai_chatcompletion                             *)
(*   search/embed.py embed_pmc_articles, _rank_numbers, query_embeddings,  *)
(*                   get_chunk_query_distance                              *)
(*   search/query.py the thread-pool variant of the query engine           *)
(***************************************************************************)
EXTENDS Integers, Sequences, FiniteSets, TLC

VARIABLES
    retry_attempts,   \* oai.py:21  int(os.getenv("PUBLANG_RETRY_ATTEMPTS", 50))
    env_warn,         \* oai.py:133 the environment's PUBLANG_WARN_ON_FAILURE ("unset" when absent)
    \* ---- one get_openai_embedding call (oai.py:119-141)
    script,           \* what the provider does on its 1st, 2nd, ... invocation
    c_pc,             \* "idle" | "calling" | "done"
    attempt_number,   \* tenacity's attempt counter = provider invocations so far
    c_policy,         \* how reexecutor ended (returned / raised)
    c_res,            \* how get_openai_embedding ended (returned / raised)
    warnings,         \* number of warnings.warn calls
    \* ---- one embed_pmc_articles call (embed.py:12-61)
    articles,         \* per submitted article, the number of chunks the Chunker yields for it
    num_workers,      \* embed.py:17
    p_pc,             \* main thread: "start" | "submit" | "collect" | "exit" | "returned" | "raised"
    next_i,           \* position in `articles` (submitting) or in `futures` (collecting)
    unit,             \* per article, its work unit / future
    results,          \* embed.py:57 the local list `results`
    pending_exc,      \* exception travelling out of the with block
    p_out,            \* how embed_pmc_articles ended
    gave_up,          \* chunks <<article, chunk>> whose embedding call ended with the Retry Policy raising
    overtaken,        \* history: some work unit ended before one submitted earlier
    split_calls,      \* history: split_pmc_document calls made (embed.py:35)
    embedding_calls,  \* history: get_openai_embedding calls made (embed.py:42)
    \* ---- one get_chunk_query_distance call (embed.py:94-113, query.py:47-66)
    q_impl,           \* "embed": embed.py's get_chunk_query_distance; "query": query.py's;
                      \* "query_embeddings": query.py's query_embeddings called directly
    distance_metric,  \* query.py:27 the distance_metric argument
    table,            \* embeddings_df: rows [pmcid, emb], emb a 1-dimensional vector or NoneEmb
    q_vec,            \* the vector the provider returns for the query text (the origin:
                      \* distances depend on the differences only)
    q_pc,             \* "idle" | "start" | "embedded" | "groups" | "done"
    query_embedding,  \* embed.py:98 the local query_embedding
    embed_calls,      \* get_openai_embedding calls made for the query text
    g_res,            \* per document group, how its query_embeddings call ended
    q_out,            \* how get_chunk_query_distance ended
    \* ---- one _rank_numbers call (embed.py:64-77, query.py:10-23)
    numbers,          \* the argument
    r_pc,             \* "idle" | "start" | "done"
    ranks,            \* the list returned
    \* ---- one get_openai_chatcompletion call (oai.py:54-116)
    output_schema,    \* oai.py:57 "None" or "schema"
    response_format,  \* oai.py:61 "None", a dict ("json_object", "text": its "type";
                      \* "no_type": without that key) or "str", a string
    ch_pc,            \* "idle" | "start" | "call" | "parse" | "done"
    mode,             \* oai.py:77-81 the local `mode`
    kwargs,           \* oai.py:85-98 of the keyword arguments sent: whether "tools"
                      \* is among them, and "response_format"
    message,          \* oai.py:102 completion.choices[0].message
    ch_res            \* how get_openai_chatcompletion ended

cfgVars    == <<retry_attempts, env_warn>>
clientVars == <<script, c_pc, attempt_number, c_policy, c_res, warnings>>
pipeVars   == <<articles, p_pc, next_i, unit, results, pending_exc,
                p_out, gave_up, overtaken, split_calls, embedding_calls>>
queryVars  == <<q_impl, distance_metric, table, q_vec, q_pc, query_embedding,
                embed_calls, g_res, q_out>>
rankVars   == <<numbers, r_pc, ranks>>
chatVars   == <<output_schema, response_format, ch_pc, mode, kwargs, message, ch_res>>
vars       == <<cfgVars, num_workers, clientVars, pipeVars, queryVars, rankVars, chatVars>>

----------------------------------------------------------------------------
(* Bounds *)
MaxAttempts == 3      \* retry_attempts ranges over 0..MaxAttempts
MaxDocs == 3          \* articles per embed_pmc_articles call
MaxChunks == 2        \* chunks the Chunker yields per article
MaxTotalChunks == 4   \* chunks of all the articles of one call together
MaxWorkers == 2       \* num_workers ranges over 0..MaxWorkers
MaxPipeAttempts == 2  \* retry_attempts during embed_pmc_articles: 1..MaxPipeAttempts
MaxFairDocs == 2      \* articles per call under the fair specification
MaxFairChunks == 2    \* chunks of all the articles of such a call together
MaxRows == 3          \* rows of the embedded-chunk table
MaxPmcids == 2        \* document ids in the table: 1..MaxPmcids
MaxCoord == 1         \* embeddings are the 1-dimensional vectors 0..MaxCoord
MaxLen == 3           \* length of the list given to _rank_numbers
MaxNum == 3           \* its elements: 0..MaxNum

----------------------------------------------------------------------------
(* Exceptions.  The client is an openai.OpenAI() object (oai.py:88, 127),   *)
(* i.e. the openai>=1 package, whose exception classes form the hierarchy   *)
(*   OpenAIError > APIError > APIConnectionError > APITimeoutError          *)
(*                 APIError > APIStatusError > BadRequestError,             *)
(*                            AuthenticationError, RateLimitError, ...      *)
(* In that package openai.Timeout is the httpx timeout configuration class, *)
(* not an exception.  TypeError stands for an error that is not raised by   *)
(* the provider at all.                                                     *)

Raisable == {"RateLimitError", "APITimeoutError", "BadRequestError",
             "AuthenticationError", "TypeError"}

\* spec section 7: rate limit, connection, timeout
TransientErrors == {"RateLimitError", "APITimeoutError"}
\* spec section 7: bad request, auth, content policy (a 400, BadRequestError)
FatalProviderErrors == {"BadRequestError", "AuthenticationError"}

Superclasses(cls) ==
    CASE cls = "RateLimitError" ->
            {"RateLimitError", "APIStatusError", "APIError", "OpenAIError", "Exception"}
      [] cls = "BadRequestError" ->
            {"BadRequestError", "APIStatusError", "APIError", "OpenAIError", "Exception"}
      [] cls = "AuthenticationError" ->
            {"AuthenticationError", "APIStatusError", "APIError", "OpenAIError", "Exception"}
      [] cls = "APITimeoutError" ->
            {"APITimeoutError", "APIConnectionError", "APIError", "OpenAIError", "Exception"}
      [] cls = "RetryError" -> {"RetryError", "Exception"}
      [] OTHER -> {cls, "Exception"}

\* oai.py:25-32
RetryTypes == {"APIError", "APIConnectionError", "RateLimitError", "Timeout"}

retry_if_exception_type(cls) == Superclasses(cls) \cap RetryTypes # {}

\* an exception object: its class and, for tenacity's RetryError, the class of
\* the exception of the last attempt it wraps
NoExc         == [cls |-> "-", last_attempt |-> "-"]
Exc(cls)      == [cls |-> cls, last_attempt |-> "-"]
RetryError(e) == [cls |-> "RetryError", last_attempt |-> e]

\* how a call ended
Pending      == [kind |-> "pending", val |-> "-", exc |-> NoExc]
Return(v)    == [kind |-> "return", val |-> v, exc |-> NoExc]
Raise(e)     == [kind |-> "raise", val |-> "-", exc |-> e]
Retry        == [kind |-> "retry", val |-> "-", exc |-> NoExc]

----------------------------------------------------------------------------
(* Retry Policy, oai.py:17-37 *)

\* faulty variants: the ceiling off by one in either direction
stop_after_attempt_early(n) == n >= retry_attempts - 1
stop_after_attempt_late(n) == n > retry_attempts

\* oai.py:34  stop=stop_after_attempt(retry_attempts)
stop_after_attempt(n) == n >= retry_attempts

\* oai.py:24-35: the tenacity wrapper after an attempt that raised `cls`.
\* reraise is left at its default (False): on stop a RetryError is raised.
retry_openai(n, cls) ==
    IF ~retry_if_exception_type(cls) THEN Raise(Exc(cls))
    ELSE IF stop_after_attempt(n) THEN Raise(RetryError(cls))
    ELSE Retry

\* faulty variant: the wrapper installed for retry_attempts >= 1
reexecutor_wrapped_at_one(n, outcome) ==
    IF outcome = "ok" THEN Return("vec")
    ELSE IF retry_attempts >= 1 THEN retry_openai(n, outcome)
    ELSE Raise(Exc(outcome))

\* oai.py:17-18 and 23, 37: what happens after attempt n of func ended with
\* `outcome` ("ok" or the class of the exception it raised)
reexecutor(n, outcome) ==
    IF outcome = "ok" THEN Return("vec")
    ELSE IF retry_attempts > 1 THEN retry_openai(n, outcome)
    ELSE Raise(Exc(outcome))

\* oai.py:133  os.getenv("PUBLANG_WARN_ON_FAILURE", False) used as a condition:
\* False when unset, else the string, which is true unless empty
warn_on_failure == env_warn \notin {"unset", ""}

\* faulty variant: the exception swallowed whatever the toggle says
get_openai_embedding_swallow(r) ==
    IF r.kind = "raise" THEN Return("None") ELSE r

(* Embedding Client, oai.py:130-141: r is how reexecutor ended *)
get_openai_embedding(r) ==
    IF r.kind = "raise"
    THEN IF warn_on_failure THEN Return("None") ELSE Raise(r.exc)
    ELSE r

\* oai.py:134
warned(r) == IF r.kind = "raise" /\ warn_on_failure THEN 1 ELSE 0

----------------------------------------------------------------------------
(* One call of get_openai_embedding against a scripted provider *)

\* the variables of the entry points a run does not exercise
\* oai.py:135 the value of a chunk's "embedding" when the call gave up (None)
NoneEmb == -1

QPending == [kind |-> "pending", rows |-> <<>>, exc |-> NoExc]

QueryIdle ==
    /\ q_impl = "-"
    /\ distance_metric = "euclidean"
    /\ table = <<>>
    /\ q_vec = 0
    /\ q_pc = "idle"
    /\ query_embedding = NoneEmb
    /\ embed_calls = 0
    /\ g_res = <<>>
    /\ q_out = QPending

RankIdle ==
    /\ numbers = <<>>
    /\ r_pc = "idle"
    /\ ranks = <<>>

PipeIdle ==
    /\ articles = <<>>
    /\ p_pc = "idle"
    /\ next_i = 1
    /\ unit = <<>>
    /\ results = <<>>
    /\ pending_exc = NoExc
    /\ p_out = [kind |-> "pending", value |-> <<>>, exc |-> NoExc]
    /\ gave_up = {}
    /\ overtaken = FALSE
    /\ split_calls = 0
    /\ embedding_calls = 0

NoKwargs == [tools |-> FALSE, response_format |-> "-"]
NoMessage == [tool_calls |-> "-", content |-> "-"]

ChatIdle ==
    /\ output_schema = "None"
    /\ response_format = "None"
    /\ ch_pc = "idle"
    /\ mode = "-"
    /\ kwargs = NoKwargs
    /\ message = NoMessage
    /\ ch_res = Pending

ClientIdle ==
    /\ script = <<>>
    /\ c_pc = "idle"
    /\ attempt_number = 0
    /\ c_policy = Pending
    /\ c_res = Pending

Outcomes == {"ok"} \cup Raisable
EnvValues == {"unset", "", "1", "False"}
ScriptLen == MaxAttempts + 1

InitClient ==
    /\ retry_attempts \in 0..MaxAttempts
    /\ env_warn \in EnvValues
    /\ script \in [1..ScriptLen -> Outcomes]
    /\ c_pc = "idle"
    /\ attempt_number = 0
    /\ c_policy = Pending
    /\ c_res = Pending
    /\ warnings = 0
    /\ PipeIdle
    /\ num_workers = 1
    /\ QueryIdle
    /\ RankIdle
    /\ ChatIdle

\* oai.py:126-127: the call is entered
ClientEnter ==
    /\ c_pc = "idle"
    /\ c_pc' = "calling"
    /\ UNCHANGED <<cfgVars, script, attempt_number, c_policy, c_res, warnings,
                   num_workers, pipeVars, queryVars, rankVars, chatVars>>

\* oai.py:131: one invocation of client.embeddings.create under reexecutor,
\* and, when reexecutor ends with it, the rest of get_openai_embedding
ProviderCall ==
    /\ c_pc = "calling"
    /\ attempt_number < ScriptLen
    /\ attempt_number' = attempt_number + 1
    /\ LET r == reexecutor(attempt_number + 1, script[attempt_number + 1]) IN
         IF r.kind = "retry"
         THEN UNCHANGED <<c_pc, c_policy, c_res, warnings>>
         ELSE /\ c_pc' = "done"
              /\ c_policy' = r
              /\ c_res' = get_openai_embedding(r)
              /\ warnings' = warnings + warned(r)
    /\ UNCHANGED <<cfgVars, script, num_workers, pipeVars, queryVars, rankVars, chatVars>>

NextClient == ClientEnter \/ ProviderCall

SpecClient == InitClient /\ [][NextClient]_vars

----------------------------------------------------------------------------
(* Embedding Pipeline, embed.py:12-61 *)

\* what client.embeddings.create does on one invocation made by the pipeline
PipeOutcomes == {"ok", "BadRequestError", "TypeError"}

\* utils/split.py split_pmc_document: the chunks of article d, in order
split_pmc_document(d) == [j \in 1..articles[d] |-> [pmcid |-> d, idx |-> j]]

\* embed.py:41-47: the chunks of article d with their embeddings and pmcid set
Embedded(d, embs) ==
    [j \in 1..Len(embs) |-> [pmcid |-> d, idx |-> j, embedding |-> embs[j]]]

PReturn(list) == [kind |-> "return", value |-> list, exc |-> NoExc]
PRaise(e)     == [kind |-> "raise", value |-> <<>>, exc |-> e]

Unsubmitted == [st |-> "unsubmitted", chunk |-> 0, embs |-> <<>>, exc |-> NoExc]

Docs == 1..Len(articles)
Running == {d \in Docs : unit[d].st = "running"}
Queued == {d \in Docs : unit[d].st = "pending"}
Ended(d) == unit[d].st \in {"finished", "failed"}
EarlierRunning(d) == \E e \in Docs : e < d /\ ~Ended(e)

RECURSIVE TotalChunks(_)
TotalChunks(as) == IF as = <<>> THEN 0 ELSE Head(as) + TotalChunks(Tail(as))

InitPipe ==
    /\ retry_attempts \in 1..MaxPipeAttempts
    /\ env_warn \in {"unset", "1"}
    /\ ClientIdle
    /\ warnings = 0
    /\ QueryIdle
    /\ RankIdle
    /\ ChatIdle
    /\ \E n \in 0..MaxDocs : articles \in [1..n -> 0..MaxChunks]
    /\ TotalChunks(articles) <= MaxTotalChunks
    /\ num_workers \in 0..MaxWorkers
    /\ p_pc = "start"
    /\ next_i = 1
    /\ unit = [d \in 1..Len(articles) |-> Unsubmitted]
    /\ results = <<>>
    /\ pending_exc = NoExc
    /\ p_out = [kind |-> "pending", value |-> <<>>, exc |-> NoExc]
    /\ gave_up = {}
    /\ overtaken = FALSE
    /\ split_calls = 0
    /\ embedding_calls = 0

\* embed.py:51: ThreadPoolExecutor(max_workers=num_workers); it raises
\* ValueError for max_workers <= 0.  With no article nothing is submitted
\* and nothing is collected.
PoolCreate ==
    /\ p_pc = "start"
    /\ IF num_workers <= 0
       THEN /\ p_pc' = "raised"
            /\ p_out' = PRaise(Exc("ValueError"))
       ELSE /\ p_pc' = IF Len(articles) = 0 THEN "exit" ELSE "submit"
            /\ UNCHANGED p_out
    /\ UNCHANGED <<cfgVars, clientVars, queryVars, rankVars, chatVars, articles, num_workers, next_i, unit,
                   results, pending_exc, gave_up, overtaken, split_calls, embedding_calls>>

\* embed.py:52-55: exc.submit(_split_embed, article, ...) for the next article
Submit ==
    /\ p_pc = "submit"
    /\ unit' = [unit EXCEPT ![next_i].st = "pending"]
    /\ IF next_i = Len(articles)
       THEN p_pc' = "collect" /\ next_i' = 1
       ELSE p_pc' = "submit" /\ next_i' = next_i + 1
    /\ UNCHANGED <<cfgVars, clientVars, queryVars, rankVars, chatVars, articles, num_workers, results,
                   pending_exc, p_out, gave_up, overtaken, split_calls, embedding_calls>>

\* faulty variants: a thread for every work item; a thread lost with the
\* work item that failed on it
WorkerFree_unbounded == TRUE
WorkerFree_failed_holds_thread ==
    Cardinality({d \in Docs : unit[d].st \in {"running", "failed"}}) < num_workers

\* embed.py:51 ThreadPoolExecutor(max_workers=num_workers): the pool has at
\* most num_workers threads, each running one work item at a time
WorkerFree == Cardinality(Running) < num_workers

\* a pool thread takes the oldest queued work item and enters _split_embed:
\* embed.py:35-39, 48-49 (the Chunker call, and the return for no chunks)
StartUnit(d) ==
    /\ d \in Queued
    /\ \A e \in Queued : d <= e
    /\ WorkerFree
    /\ split_calls' = split_calls + 1
    /\ unit' = [unit EXCEPT ![d] =
                  IF Len(split_pmc_document(d)) = 0
                  THEN [@ EXCEPT !.st = "finished"]
                  ELSE [@ EXCEPT !.st = "running", !.chunk = 1]]
    /\ overtaken' = (overtaken \/ (unit'[d].st = "finished" /\ EarlierRunning(d)))
    /\ UNCHANGED <<cfgVars, clientVars, queryVars, rankVars, chatVars, articles, num_workers, p_pc, next_i,
                   results, pending_exc, p_out, gave_up, embedding_calls>>

\* faulty variant: a chunk without an embedding is left out of the list
AfterEmbedding_drop_none(u, nchunks, e) ==
    IF e.kind = "raise"
    THEN [u EXCEPT !.st = "failed", !.exc = e.exc, !.embs = <<>>]
    ELSE [u EXCEPT !.embs = IF e.val = "None" THEN @ ELSE Append(@, e.val),
                   !.chunk = IF u.chunk = nchunks THEN u.chunk ELSE u.chunk + 1,
                   !.st = IF u.chunk = nchunks THEN "finished" ELSE "running"]

\* the unit after get_openai_embedding ended with e for its current chunk:
\* embed.py:41-47, or the exception leaves _split_embed and is set on the future
AfterEmbedding(u, nchunks, e) ==
    IF e.kind = "raise"
    THEN [u EXCEPT !.st = "failed", !.exc = e.exc, !.embs = <<>>]
    ELSE [u EXCEPT !.embs = Append(@, e.val),
                   !.chunk = IF u.chunk = nchunks THEN u.chunk ELSE u.chunk + 1,
                   !.st = IF u.chunk = nchunks THEN "finished" ELSE "running"]

\* the attempts one reexecutor call can get to: attempt n is made when every
\* attempt before it ended in a failure that is retried
AttemptsReachable ==
    {n \in 1..(MaxPipeAttempts + 2) :
        \A m \in 1..(n - 1) : \E o \in PipeOutcomes : reexecutor(m, o).kind = "retry"}

\* every way one reexecutor call can end when the provider's invocations end
\* in `outcomes`: at a reachable attempt, with a return or a raise
PolicyEnds(outcomes) ==
    {reexecutor(n, o) : n \in AttemptsReachable, o \in outcomes} \ {Retry}

\* embed.py:42-46 -> oai.py:119-141: one whole get_openai_embedding call for
\* the current chunk of unit d
EmbedChunk(d) ==
    /\ d \in Running
    /\ embedding_calls' = embedding_calls + 1
    /\ \E r \in PolicyEnds(PipeOutcomes) :
         /\ unit' = [unit EXCEPT ![d] =
                        AfterEmbedding(@, articles[d], get_openai_embedding(r))]
         /\ warnings' = warnings + warned(r)
         /\ gave_up' = IF r.kind = "raise"
                       THEN gave_up \cup {<<d, unit[d].chunk>>}
                       ELSE gave_up
    /\ overtaken' = (overtaken \/ (unit'[d].st # "running" /\ EarlierRunning(d)))
    /\ UNCHANGED <<cfgVars, script, c_pc, attempt_number, c_policy, c_res,
                   queryVars, rankVars, chatVars, articles, num_workers, p_pc, next_i, results,
                   pending_exc, p_out, split_calls>>

\* faulty variant: a failed future contributes nothing
future_result_skip_failed(u, d) ==
    IF u.st = "failed" THEN PReturn(<<>>) ELSE PReturn(Embedded(d, u.embs))

\* embed.py:59 future.result() of an ended future
future_result(u, d) ==
    IF u.st = "failed" THEN PRaise(u.exc) ELSE PReturn(Embedded(d, u.embs))

\* faulty variant: the new chunks put in front
Extend_prepend(list, chunks) == chunks \o list

\* embed.py:59  results += ...
Extend(list, chunks) == list \o chunks

\* embed.py:58-59: the main thread takes the next future of the list, in the
\* order of submission, once it has ended
Collect ==
    /\ p_pc = "collect"
    /\ Ended(next_i)
    /\ LET r == future_result(unit[next_i], next_i) IN
         IF r.kind = "raise"
         THEN /\ pending_exc' = r.exc
              /\ p_pc' = "exit"
              /\ UNCHANGED <<results, next_i>>
         ELSE /\ results' = Extend(results, r.value)
              /\ IF next_i = Len(articles)
                 THEN p_pc' = "exit" /\ UNCHANGED next_i
                 ELSE p_pc' = "collect" /\ next_i' = next_i + 1
              /\ UNCHANGED pending_exc
    /\ UNCHANGED <<cfgVars, clientVars, queryVars, rankVars, chatVars, articles, num_workers, unit, p_out, gave_up,
                   overtaken, split_calls, embedding_calls>>

\* what stays as it is when the main thread leaves the with block
PoolExitFrame ==
    UNCHANGED <<cfgVars, clientVars, queryVars, rankVars, chatVars, articles, num_workers, next_i, unit,
                results, pending_exc, gave_up, overtaken, split_calls, embedding_calls>>

\* faulty variant: an empty `results` is an error
PoolExit_empty_raises ==
    /\ p_pc = "exit"
    /\ \A d \in Docs : Ended(d)
    /\ IF pending_exc = NoExc /\ results # <<>>
       THEN p_pc' = "returned" /\ p_out' = PReturn(results)
       ELSE /\ p_pc' = "raised"
            /\ p_out' = PRaise(IF pending_exc = NoExc THEN Exc("ValueError")
                               ELSE pending_exc)
    /\ PoolExitFrame

\* faulty variant: the pool shut down without waiting for its work items
PoolExit_no_wait ==
    /\ p_pc = "exit"
    /\ IF pending_exc = NoExc
       THEN p_pc' = "returned" /\ p_out' = PReturn(results)
       ELSE p_pc' = "raised" /\ p_out' = PRaise(pending_exc)
    /\ PoolExitFrame

\* embed.py:51, 61: leaving the with block is shutdown(wait=True): every
\* submitted work item is run and waited for; then the pending exception
\* propagates, or `results` is returned
PoolExit ==
    /\ p_pc = "exit"
    /\ \A d \in Docs : Ended(d)
    /\ IF pending_exc = NoExc
       THEN p_pc' = "returned" /\ p_out' = PReturn(results)
       ELSE p_pc' = "raised" /\ p_out' = PRaise(pending_exc)
    /\ PoolExitFrame

NextPipe ==
    \/ PoolCreate
    \/ Submit
    \/ \E d \in Docs : StartUnit(d)
    \/ \E d \in Docs : EmbedChunk(d)
    \/ Collect
    \/ PoolExit

SpecPipe == InitPipe /\ [][NextPipe]_vars

\* The same with the scheduling the program runs under: the main thread keeps
\* running, a pool thread that is free takes the next queued work item, and
\* every get_openai_embedding call ends (each provider invocation returns or
\* raises within its timeout, and the Retry Policy stops after its ceiling).
FairPipe ==
    /\ WF_vars(PoolCreate)
    /\ WF_vars(Submit)
    /\ WF_vars(Collect)
    /\ WF_vars(PoolExit)
    /\ \A d \in 1..MaxDocs : WF_vars(StartUnit(d)) /\ WF_vars(EmbedChunk(d))

\* the calls the fair specification starts from
InitPipeFair ==
    /\ InitPipe
    /\ Len(articles) <= MaxFairDocs
    /\ TotalChunks(articles) <= MaxFairChunks

SpecPipeFair == InitPipeFair /\ [][NextPipe]_vars /\ FairPipe

----------------------------------------------------------------------------
(* _rank_numbers, embed.py:64-77 and query.py:10-23 (the same text) *)

\* faulty variant: descending, as the docstring words it
TupleLess_descending(a, b) == a[1] > b[1] \/ (a[1] = b[1] /\ a[2] < b[2])

\* Python's ordering of the tuples (num, i)
TupleLess(a, b) == a[1] < b[1] \/ (a[1] = b[1] /\ a[2] < b[2])

\* sorted(...): insertion of one tuple into a sorted list, and the sort
RECURSIVE Insert(_, _)
Insert(x, sortedseq) ==
    IF sortedseq = <<>> THEN <<x>>
    ELSE IF TupleLess(x, Head(sortedseq)) THEN <<x>> \o sortedseq
    ELSE <<Head(sortedseq)>> \o Insert(x, Tail(sortedseq))

RECURSIVE sorted(_)
sorted(list) == IF list = <<>> THEN <<>> ELSE Insert(Head(list), sorted(Tail(list)))

\* embed.py:73-77.  Python indexes from 0: element i of the TLA+ sequence is
\* numbers[i-1], and position r of ranked_numbers has rank r-1.
rank_numbers(nums) ==
    LET ranked_numbers == sorted([i \in 1..Len(nums) |-> <<nums[i], i - 1>>]) IN
    [i \in 1..Len(nums) |->
        (CHOOSE r \in 1..Len(nums) : ranked_numbers[r][2] = i - 1) - 1]

InitRank ==
    /\ retry_attempts = 1
    /\ env_warn = "unset"
    /\ ClientIdle
    /\ warnings = 0
    /\ PipeIdle
    /\ num_workers = 1
    /\ QueryIdle
    /\ ChatIdle
    /\ \E n \in 0..MaxLen : numbers \in [1..n -> 0..MaxNum]
    /\ r_pc = "start"
    /\ ranks = <<>>

RankNumbers ==
    /\ r_pc = "start"
    /\ ranks' = rank_numbers(numbers)
    /\ r_pc' = "done"
    /\ UNCHANGED <<cfgVars, num_workers, clientVars, pipeVars, queryVars, chatVars, numbers>>

NextRank == RankNumbers

SpecRank == InitRank /\ [][NextRank]_vars

----------------------------------------------------------------------------
(* Query Engine: get_chunk_query_distance, embed.py:80-113 and query.py:26-66 *)

QReturn(rows) == [kind |-> "return", rows |-> rows, exc |-> NoExc]
QRaise(e)     == [kind |-> "raise", rows |-> <<>>, exc |-> e]

\* how one query_embeddings call ended
GPending       == [kind |-> "pending", distances |-> <<>>, ranks |-> <<>>, exc |-> NoExc]
GReturn(ds, rs) == [kind |-> "return", distances |-> ds, ranks |-> rs, exc |-> NoExc]
GRaise(e)      == [kind |-> "raise", distances |-> <<>>, ranks |-> <<>>, exc |-> e]

\* groupby("pmcid", sort=False): the keys of the first n rows in the order of
\* their first appearance
RECURSIVE KeysUpTo(_)
KeysUpTo(n) ==
    IF n = 0 THEN <<>>
    ELSE LET ks == KeysUpTo(n - 1) IN
         IF \E i \in 1..Len(ks) : ks[i] = table[n].pmcid
         THEN ks ELSE Append(ks, table[n].pmcid)

GroupKeys == KeysUpTo(Len(table))
Groups == 1..Len(GroupKeys)

\* the row numbers of group g among the first n rows, in table order
RECURSIVE RowsUpTo(_, _)
RowsUpTo(g, n) ==
    IF n = 0 THEN <<>>
    ELSE IF table[n].pmcid = GroupKeys[g]
         THEN Append(RowsUpTo(g, n - 1), n) ELSE RowsUpTo(g, n - 1)

GroupRows(g) == RowsUpTo(g, Len(table))

\* sub_df["embedding"].tolist()
GroupEmbeddings(g) == [k \in 1..Len(GroupRows(g)) |-> table[GroupRows(g)[k]].emb]

\* sklearn's euclidean_distances(X, Y, squared=True) of 1-dimensional vectors
euclidean_distances(embeddings, q) ==
    [k \in 1..Len(embeddings) |-> (embeddings[k] - q) * (embeddings[k] - q)]

\* embed.py:85-91 (query.py:31, 35-44 with the default metric): np.array and
\* euclidean_distances reject a None among the embeddings, and a None query
query_embeddings(embeddings, q) ==
    IF q = NoneEmb \/ \E k \in 1..Len(embeddings) : embeddings[k] = NoneEmb
    THEN GRaise(Exc("ValueError"))
    ELSE LET distances == euclidean_distances(embeddings, q) IN
         GReturn(distances, rank_numbers(distances))

\* sklearn's cosine_distances(X, Y) of 1-dimensional vectors: 1 minus the
\* product of the normalised vectors, a zero vector staying zero
Sign(x) == IF x > 0 THEN 1 ELSE IF x < 0 THEN -1 ELSE 0

cosine_distances(embeddings, q) ==
    [k \in 1..Len(embeddings) |-> 1 - Sign(embeddings[k]) * Sign(q)]

\* query.py:27, 35-44: the part of query.py's query_embeddings that follows
\* its get_openai_embedding call, q being the value that call returned.  No
\* branch assigns `distances` for a metric other than the two, and line 44
\* then raises UnboundLocalError.  The pairwise functions reject a None and a
\* list of no embeddings.
query_embeddings_metric(embeddings, q, metric) ==
    IF metric \notin {"euclidean", "cosine"} THEN GRaise(Exc("UnboundLocalError"))
    ELSE IF \/ q = NoneEmb
            \/ Len(embeddings) = 0
            \/ \E k \in 1..Len(embeddings) : embeddings[k] = NoneEmb
    THEN GRaise(Exc("ValueError"))
    ELSE LET distances == IF metric = "euclidean"
                          THEN euclidean_distances(embeddings, q)
                          ELSE cosine_distances(embeddings, q) IN
         GReturn(distances, rank_numbers(distances))

\* np.concatenate over the groups 1..n, in group order
RECURSIVE ConcatDistances(_, _)
ConcatDistances(res, n) ==
    IF n = 0 THEN <<>> ELSE ConcatDistances(res, n - 1) \o res[n].distances

RECURSIVE ConcatRanks(_, _)
ConcatRanks(res, n) ==
    IF n = 0 THEN <<>> ELSE ConcatRanks(res, n - 1) \o res[n].ranks

\* embed.py:107-109 (query.py:62-64): the columns of embeddings_df in table
\* order, and the two concatenations assigned to them by position
Assemble(res) ==
    LET distances == ConcatDistances(res, Len(res))
        rks == ConcatRanks(res, Len(res)) IN
    [i \in 1..Len(table) |->
        [pmcid |-> table[i].pmcid, row |-> i,
         distance |-> distances[i], rank |-> rks[i]]]

\* embed.py:111 sort_values("distance"): ascending; the default sort is not
\* stable, rows of equal distance may end in any order
SortValues(rows) ==
    LET n == Len(rows) IN
    {[k \in 1..n |-> rows[perm[k]]] :
        perm \in {f \in [1..n -> 1..n] :
                    /\ \A a, b \in 1..n : a # b => f[a] # f[b]
                    /\ \A k \in 1..(n - 1) :
                          rows[f[k]].distance <= rows[f[k + 1]].distance}}

\* what the function ends with once every group has its result: the first
\* exception in group order; ValueError from zip(*...) unpacking when there
\* is no group (embed.py:99, query.py:59); else the assembled rows
Combined(res) ==
    IF \E g \in 1..Len(res) : res[g].kind = "raise"
    THEN QRaise(res[CHOOSE g \in 1..Len(res) :
                       /\ res[g].kind = "raise"
                       /\ \A h \in 1..(g - 1) : res[h].kind # "raise"].exc)
    ELSE IF Len(res) = 0 THEN QRaise(Exc("ValueError"))
    ELSE QReturn(Assemble(res))

\* what client.embeddings.create does on one invocation made for the query
QueryOutcomes == {"ok", "BadRequestError"}

\* the value get_openai_embedding(query) hands back
QueryValue(e) == IF e.val = "None" THEN NoneEmb ELSE q_vec

\* the get_openai_embedding call query.py's query_embeddings makes
\* (query.py:33) and what follows it: the calls made, the warnings emitted and
\* how query_embeddings ended.  np.array (query.py:31) comes first: a numpy
\* that refuses ragged input (1.24 and later) raises ValueError there for a
\* list that mixes vectors and None, an older one builds an object array.
Ragged(embeddings) ==
    /\ \E k \in 1..Len(embeddings) : embeddings[k] = NoneEmb
    /\ \E k \in 1..Len(embeddings) : embeddings[k] # NoneEmb

query_embeddings_call(embeddings, metric) ==
    (IF Ragged(embeddings)
     THEN {[calls |-> 0, warned |-> 0, res |-> GRaise(Exc("ValueError"))]}
     ELSE {})
    \cup
    {LET e == get_openai_embedding(r) IN
     [calls |-> 1, warned |-> warned(r),
      res |-> IF e.kind = "raise" THEN GRaise(e.exc)
              ELSE query_embeddings_metric(embeddings, QueryValue(e), metric)] :
        r \in PolicyEnds(QueryOutcomes)}

RowKinds == [pmcid : 1..MaxPmcids, emb : (0..MaxCoord) \cup {NoneEmb}]

\* values of the distance_metric argument; "manhattan" is none of the two
\* the function knows
Metrics == {"euclidean", "cosine", "manhattan"}

InitQuery ==
    /\ retry_attempts = MaxPipeAttempts
    /\ env_warn \in {"unset", "1"}
    /\ ClientIdle
    /\ warnings = 0
    /\ PipeIdle
    /\ RankIdle
    /\ ChatIdle
    /\ q_impl \in {"embed", "query", "query_embeddings"}
    /\ distance_metric \in IF q_impl = "query_embeddings" THEN Metrics ELSE {"euclidean"}
    /\ num_workers \in IF q_impl = "query" THEN 0..MaxWorkers ELSE {1}
    /\ \E n \in 0..MaxRows : table \in [1..n -> RowKinds]
    /\ q_vec = 0
    /\ q_pc = "start"
    /\ query_embedding = NoneEmb
    /\ embed_calls = 0
    /\ g_res = <<>>
    /\ q_out = QPending

\* embed.py:98: the one get_openai_embedding call for the query text
EmbedQuery ==
    /\ q_impl = "embed"
    /\ q_pc = "start"
    /\ embed_calls' = embed_calls + 1
    /\ \E r \in PolicyEnds(QueryOutcomes) :
         LET e == get_openai_embedding(r) IN
         /\ warnings' = warnings + warned(r)
         /\ IF e.kind = "raise"
            THEN /\ q_out' = QRaise(e.exc)
                 /\ q_pc' = "done"
                 /\ UNCHANGED query_embedding
            ELSE /\ query_embedding' = QueryValue(e)
                 /\ q_pc' = "embedded"
                 /\ UNCHANGED q_out
    /\ UNCHANGED <<cfgVars, num_workers, script, c_pc, attempt_number, c_policy, c_res,
                   pipeVars, rankVars, chatVars, q_impl, distance_metric, table, q_vec, g_res>>

\* embed.py:99-113: distances and ranks group by group, the result table and
\* its sort
RankAndSort ==
    /\ q_impl = "embed"
    /\ q_pc = "embedded"
    /\ g_res' = [g \in Groups |-> query_embeddings(GroupEmbeddings(g), query_embedding)]
    /\ LET out == Combined(g_res') IN
         IF out.kind = "raise"
         THEN q_out' = out
         ELSE \E sortedrows \in SortValues(out.rows) : q_out' = QReturn(sortedrows)
    /\ q_pc' = "done"
    /\ UNCHANGED <<cfgVars, num_workers, clientVars, pipeVars, rankVars, chatVars,
                   q_impl, distance_metric, table, q_vec, query_embedding, embed_calls>>

\* query.py:49-53: ThreadPoolExecutor(max_workers=num_workers), ValueError for
\* max_workers <= 0, and one query_embeddings work item submitted per group
QueryPoolCreate ==
    /\ q_impl = "query"
    /\ q_pc = "start"
    /\ IF num_workers <= 0
       THEN /\ q_pc' = "done"
            /\ q_out' = QRaise(Exc("ValueError"))
            /\ UNCHANGED g_res
       ELSE /\ q_pc' = "groups"
            /\ g_res' = [g \in Groups |-> GPending]
            /\ UNCHANGED q_out
    /\ UNCHANGED <<cfgVars, num_workers, clientVars, pipeVars, rankVars, chatVars,
                   q_impl, distance_metric, table, q_vec, query_embedding, embed_calls>>

\* query.py:26-44 run by a pool thread for group g: its own
\* get_openai_embedding(query) call (query.py:33), then distances and ranks;
\* get_chunk_query_distance passes no distance_metric, it is the default.
\* The pool runs the work items oldest first on num_workers threads, so g can
\* be the next to end when fewer than num_workers unended items precede it.
QueryGroup(g) ==
    /\ q_impl = "query"
    /\ q_pc = "groups"
    /\ g_res[g].kind = "pending"
    /\ Cardinality({h \in Groups : h < g /\ g_res[h].kind = "pending"}) < num_workers
    /\ \E x \in query_embeddings_call(GroupEmbeddings(g), distance_metric) :
         /\ embed_calls' = embed_calls + x.calls
         /\ warnings' = warnings + x.warned
         /\ g_res' = [g_res EXCEPT ![g] = x.res]
    /\ UNCHANGED <<cfgVars, num_workers, script, c_pc, attempt_number, c_policy, c_res,
                   pipeVars, rankVars, chatVars, q_impl, distance_metric, table, q_vec, q_pc, query_embedding, q_out>>

\* query.py:55-66: the futures' results taken in group order, the pool shut
\* down (every work item has ended), and the result table, which is not sorted
QueryAssemble ==
    /\ q_impl = "query"
    /\ q_pc = "groups"
    /\ \A g \in Groups : g_res[g].kind # "pending"
    /\ q_out' = Combined(g_res)
    /\ q_pc' = "done"
    /\ UNCHANGED <<cfgVars, num_workers, clientVars, pipeVars, rankVars, chatVars,
                   q_impl, distance_metric, table, q_vec, query_embedding, embed_calls, g_res>>

\* query.py:26-44 called by itself on the embeddings of the whole table, with
\* a distance_metric of the caller's choice
AllEmbeddings == [k \in 1..Len(table) |-> table[k].emb]

QueryEmbeddingsDirect ==
    /\ q_impl = "query_embeddings"
    /\ q_pc = "start"
    /\ \E x \in query_embeddings_call(AllEmbeddings, distance_metric) :
         /\ embed_calls' = embed_calls + x.calls
         /\ warnings' = warnings + x.warned
         /\ g_res' = <<x.res>>
    /\ q_pc' = "done"
    /\ UNCHANGED <<cfgVars, num_workers, script, c_pc, attempt_number, c_policy, c_res,
                   pipeVars, rankVars, chatVars, q_impl, distance_metric, table, q_vec, query_embedding, q_out>>

NextQuery ==
    \/ QueryEmbeddingsDirect
    \/ EmbedQuery
    \/ RankAndSort
    \/ QueryPoolCreate
    \/ \E g \in Groups : QueryGroup(g)
    \/ QueryAssemble

SpecQuery == InitQuery /\ [][NextQuery]_vars

----------------------------------------------------------------------------
(* Chat completion wrapper: get_openai_chatcompletion, oai.py:54-116 *)

\* faulty variant: the schema looked at first
select_mode_schema_first(schema, format) ==
    IF schema # "None" THEN "function"
    ELSE IF format = "json_object" THEN "json"
    ELSE "text"

\* oai.py:76-81: response_format.get("type") == "json_object" is tested first,
\* the schema only when that fails
select_mode(schema, format) ==
    IF format # "None" /\ format = "json_object" THEN "json"
    ELSE IF schema # "None" THEN "function"
    ELSE "text"

\* what client.chat.completions.create does on one invocation
ChatOutcomes == {"ok", "RateLimitError", "TypeError"}

\* the messages the provider can answer with: a tool invocation only when
\* tools were sent, its arguments well-formed JSON or not; a content that is
\* JSON text or not
Messages(tools) ==
    [tool_calls : IF tools THEN {"None", "args_json", "args_bad"} ELSE {"None"},
     content : {"content_json", "content_bad"}]

\* json.loads: the object a JSON text stands for, JSONDecodeError otherwise
json_loads(text) ==
    CASE text = "args_json" -> Return("args_object")
      [] text = "content_json" -> Return("content_object")
      [] OTHER -> Raise(Exc("JSONDecodeError"))

\* oai.py:104-116
parse_response(m, msg) ==
    IF m = "function"
    THEN IF msg.tool_calls = "None" THEN Raise(Exc("ValueError"))
         ELSE json_loads(msg.tool_calls)
    ELSE IF m = "json" THEN json_loads(msg.content)
    ELSE Return(msg.content)

InitChat ==
    /\ retry_attempts \in 1..MaxPipeAttempts
    /\ env_warn = "unset"
    /\ ClientIdle
    /\ warnings = 0
    /\ PipeIdle
    /\ num_workers = 1
    /\ QueryIdle
    /\ RankIdle
    /\ output_schema \in {"None", "schema"}
    /\ response_format \in {"None", "json_object", "text", "no_type", "str"}
    /\ ch_pc = "start"
    /\ mode = "-"
    /\ kwargs = NoKwargs
    /\ message = NoMessage
    /\ ch_res = Pending

\* oai.py:76-98: the mode, the tool definition for function mode, and the
\* keyword arguments; a response_format that is a string has no .get
ChatSelectMode ==
    /\ ch_pc = "start"
    /\ IF response_format = "str"
       THEN /\ ch_res' = Raise(Exc("AttributeError"))
            /\ ch_pc' = "done"
            /\ UNCHANGED <<mode, kwargs>>
       ELSE /\ mode' = select_mode(output_schema, response_format)
            /\ kwargs' = [tools |-> mode' = "function",
                          response_format |-> response_format]
            /\ ch_pc' = "call"
            /\ UNCHANGED ch_res
    /\ UNCHANGED <<cfgVars, num_workers, clientVars, pipeVars, queryVars, rankVars,
                   output_schema, response_format, message>>

\* oai.py:100-102: client.chat.completions.create under reexecutor; what the
\* Retry Policy raises leaves the function
ChatCall ==
    /\ ch_pc = "call"
    /\ \E r \in PolicyEnds(ChatOutcomes) :
         IF r.kind = "raise"
         THEN /\ ch_res' = Raise(r.exc)
              /\ ch_pc' = "done"
              /\ UNCHANGED message
         ELSE /\ \E msg \in Messages(kwargs.tools) : message' = msg
              /\ ch_pc' = "parse"
              /\ UNCHANGED ch_res
    /\ UNCHANGED <<cfgVars, num_workers, clientVars, pipeVars, queryVars, rankVars,
                   output_schema, response_format, mode, kwargs>>

\* oai.py:104-116: the response taken from the message as the mode says
ChatParse ==
    /\ ch_pc = "parse"
    /\ ch_res' = parse_response(mode, message)
    /\ ch_pc' = "done"
    /\ UNCHANGED <<cfgVars, num_workers, clientVars, pipeVars, queryVars, rankVars,
                   output_schema, response_format, mode, kwargs, message>>

NextChat == ChatSelectMode \/ ChatCall \/ ChatParse

SpecChat == InitChat /\ [][NextChat]_vars

----------------------------------------------------------------------------
(* Properties of the Retry Policy and the Embedding Client (SpecClient) *)

ClientDone == c_pc = "done"

\* the provider fails transiently exactly k times, then succeeds
FailsThenSucceeds(k) ==
    /\ \A i \in 1..k : script[i] \in TransientErrors
    /\ script[k + 1] = "ok"

\* the provider fails transiently on every invocation
AlwaysTransient == \A i \in 1..ScriptLen : script[i] \in TransientErrors

\* C2: a call that fails transiently exactly k < N times and then succeeds is
\* invoked exactly k+1 times and its success value is returned
C2_RetryBound ==
    \A k \in 0..MaxAttempts :
        (k < retry_attempts /\ FailsThenSucceeds(k)) =>
            /\ attempt_number <= k + 1
            /\ ClientDone => /\ attempt_number = k + 1
                             /\ c_policy = Return("vec")
                             /\ c_res = Return("vec")

C2_Witness ==
    /\ ClientDone
    /\ 2 < retry_attempts
    /\ FailsThenSucceeds(2)
    /\ attempt_number = 3

\* C3: a fatal provider error (bad request, authentication, content policy)
\* is never retried: one invocation, and that error propagates
C3_FatalNeverRetried ==
    script[1] \in FatalProviderErrors =>
        /\ attempt_number <= 1
        /\ ClientDone => c_policy = Raise(Exc(script[1]))

\* C4 as stated: after N transient failures (N > 1) the exception of the
\* final attempt itself propagates
C4_FinalExceptionItself ==
    (retry_attempts > 1 /\ AlwaysTransient) =>
        /\ attempt_number <= retry_attempts
        /\ ClientDone => /\ attempt_number = retry_attempts
                         /\ c_policy = Raise(Exc(script[retry_attempts]))

\* C4 amended: after exactly N transient failures (N > 1) a RetryError that
\* wraps the final attempt's exception propagates; nothing is returned
C4_ExhaustionRaisesRetryError ==
    (retry_attempts > 1 /\ AlwaysTransient) =>
        /\ attempt_number <= retry_attempts
        /\ ClientDone => /\ attempt_number = retry_attempts
                         /\ c_policy = Raise(RetryError(script[retry_attempts]))

C4_Witness ==
    /\ ClientDone
    /\ retry_attempts = MaxAttempts
    /\ AlwaysTransient
    /\ attempt_number = MaxAttempts
    /\ c_policy.kind = "raise"

\* C5: with N <= 1 the call is invoked exactly once and its value or its
\* exception, transient or fatal, is passed straight through
C5_PassThrough ==
    retry_attempts <= 1 =>
        /\ attempt_number <= 1
        /\ ClientDone =>
             /\ attempt_number = 1
             /\ c_policy = IF script[1] = "ok" THEN Return("vec")
                           ELSE Raise(Exc(script[1]))

C5_Witness ==
    /\ ClientDone
    /\ retry_attempts = 1
    /\ script[1] \in TransientErrors
    /\ c_policy = Raise(Exc(script[1]))

\* the Retry Policy had given up when the call ended: the last invocation
\* failed, and a retryable failure was the N-th one
RetriesNotCutShort ==
    LET last == script[attempt_number] IN
    /\ last # "ok"
    /\ (retry_attempts > 1 /\ retry_if_exception_type(last)) =>
           attempt_number = retry_attempts

\* C6: fail-hard (toggle unset) lets the exception the Retry Policy ended
\* with propagate; fail-soft catches it only after the Retry Policy gave up,
\* warns once and returns None
C6_FailModes ==
    /\ env_warn = "unset" => ~warn_on_failure
    /\ (ClientDone /\ c_policy.kind = "raise") =>
          IF warn_on_failure
          THEN /\ c_res = Return("None")
               /\ warnings = 1
               /\ RetriesNotCutShort
          ELSE /\ c_res = Raise(c_policy.exc)
               /\ warnings = 0

C6_Witness ==
    /\ ClientDone
    /\ warn_on_failure
    /\ retry_attempts = 2
    /\ attempt_number = 2
    /\ c_res = Return("None")
    /\ warnings = 1

----------------------------------------------------------------------------
(* Properties of the Embedding Pipeline (SpecPipe) *)

\* the chunks of the first n articles, article by article in the order of
\* submission, each article's chunks in the Chunker's order
RECURSIVE SubmissionOrder(_)
SubmissionOrder(n) ==
    IF n = 0 THEN <<>>
    ELSE SubmissionOrder(n - 1) \o [j \in 1..articles[n] |-> <<n, j>>]

\* which chunk each element of a result list is
Identity(list) == [i \in 1..Len(list) |-> <<list[i].pmcid, list[i].idx>>]

IsPrefix(a, b) == Len(a) <= Len(b) /\ a = SubSeq(b, 1, Len(a))

\* C1: whatever num_workers >= 1 and whatever the order in which the work
\* units end, the returned list is the per-article chunk lists concatenated
\* in the order of submission
C1_SubmissionOrder ==
    /\ IsPrefix(Identity(results), SubmissionOrder(Len(articles)))
    /\ p_out.kind = "return" =>
          Identity(p_out.value) = SubmissionOrder(Len(articles))

C1_Witness ==
    /\ p_out.kind = "return"
    /\ num_workers = 2
    /\ Len(articles) = 3
    /\ overtaken
    /\ \A d \in Docs : articles[d] >= 1

\* C7: in fail-soft mode the call does not raise, and it returns every chunk
\* in submission order: without an embedding where the embedding call gave
\* up, embedded everywhere else
C7_FailSoftContainment ==
    (warn_on_failure /\ num_workers >= 1) =>
        /\ p_out.kind # "raise"
        /\ p_out.kind = "return" =>
              /\ Identity(p_out.value) = SubmissionOrder(Len(articles))
              /\ \A i \in 1..Len(p_out.value) :
                    p_out.value[i].embedding =
                        IF <<p_out.value[i].pmcid, p_out.value[i].idx>> \in gave_up
                        THEN "None" ELSE "vec"

C7_Witness ==
    /\ warn_on_failure
    /\ articles = <<1, 1, 1>>
    /\ gave_up = {<<2, 1>>}
    /\ p_out.kind = "return"
    /\ [i \in 1..3 |-> p_out.value[i].embedding] = <<"vec", "None", "vec">>

\* the first article, in submission order, with a chunk whose call gave up
FirstFailed == CHOOSE d \in Docs :
    /\ \E c \in gave_up : c[1] = d
    /\ \A c \in gave_up : d <= c[1]

\* C8: in fail-hard mode, once a chunk's embedding call has failed the call
\* never returns a list; it ends by raising the error of a failed chunk (of
\* the first failed article in submission order)
C8_FailHardAborts ==
    (~warn_on_failure /\ gave_up # {}) =>
        /\ p_out.kind # "return"
        /\ p_pc # "returned"
        /\ p_pc = "raised" => p_out = PRaise(unit[FirstFailed].exc)

C8_Witness ==
    /\ p_pc = "raised"
    /\ ~warn_on_failure
    /\ num_workers = 2
    /\ results # <<>>
    /\ Cardinality(gave_up) = 2
    /\ \E d, e \in Docs : /\ d < e
                          /\ unit[d].st = "failed" /\ unit[e].st = "failed"
                          /\ unit[d].exc # unit[e].exc
                          /\ p_out.exc = unit[d].exc

----------------------------------------------------------------------------
(* Properties of _rank_numbers (SpecRank) *)

----------------------------------------------------------------------------
(* Properties of the Query Engine (SpecQuery) *)

\* C9: one get_chunk_query_distance call makes exactly one Embedding Client
\* call for the query text, however many groups and chunks the table has
C9_QueryEmbeddedOnce ==
    q_out.kind = "return" => embed_calls = 1

\* the squared distance of table row i to the query vector, and the position
\* of that distance among the rows of the same document id (ties by row order)
OwnDistance(i) == (table[i].emb - q_vec) * (table[i].emb - q_vec)

OwnRank(i) ==
    Cardinality({j \in 1..Len(table) :
                    /\ table[j].pmcid = table[i].pmcid
                    /\ TupleLess(<<OwnDistance(j), j>>, <<OwnDistance(i), i>>)})

\* C11: every result row carries the distance of its own chunk to the query
\* and that chunk's rank among the chunks of the same document id, whether or
\* not the rows of a document are contiguous in the table
C11_OwnDistanceAndGroupRank ==
    q_out.kind = "return" =>
        \A k \in 1..Len(q_out.rows) :
            LET r == q_out.rows[k] IN
            /\ r.distance = OwnDistance(r.row)
            /\ r.rank = OwnRank(r.row)

\* C12: the returned table is sorted by distance ascending across all groups
C12_SortedAscending ==
    q_out.kind = "return" =>
        \A k \in 1..(Len(q_out.rows) - 1) :
            q_out.rows[k].distance <= q_out.rows[k + 1].distance

\* some chunk of the table has no embedding (the fail-soft value None)
HasMissingEmbedding == \E i \in 1..Len(table) : table[i].emb = NoneEmb

\* C13: a chunk without an embedding does not make the query fail: with a
\* valid worker count and every provider call succeeding, the query over a
\* table that holds such a chunk returns
C13_MissingEmbeddingTolerated ==
    (q_pc = "done" /\ num_workers >= 1 /\ warnings = 0 /\ HasMissingEmbedding) =>
        ~(q_out.kind = "raise" /\ q_out.exc.cls = "ValueError")

\* C16: a query over a table with no rows returns an empty result table
\* instead of raising
C16_EmptyTableNoError ==
    (q_pc = "done" /\ num_workers >= 1 /\ warnings = 0 /\ Len(table) = 0) =>
        ~(q_out.kind = "raise" /\ q_out.exc.cls = "ValueError")

\* the run ended in a configuration error: the pool refused a worker count of
\* zero, or query_embeddings failed on a metric it does not know
ConfigErrorEnd ==
    \/ num_workers <= 0 /\ p_out = PRaise(Exc("ValueError"))
    \/ num_workers <= 0 /\ q_out = QRaise(Exc("ValueError"))
    \/ /\ distance_metric \notin {"euclidean", "cosine"}
       /\ q_pc = "done"
       /\ g_res = <<GRaise(Exc("UnboundLocalError"))>>

\* C14: a run that ends in a configuration error (unknown distance metric,
\* zero workers) has issued no embedding call and started no work unit
C14_ConfigErrorBeforeRemoteCall ==
    ConfigErrorEnd =>
        /\ embed_calls = 0
        /\ \A d \in Docs : unit[d].st = "unsubmitted"

----------------------------------------------------------------------------
(* Further properties of the Embedding Pipeline (SpecPipe) *)

PipeEnded == p_pc \in {"returned", "raised"}

\* C15: with no article and num_workers >= 1 the call makes no Chunker call
\* and no embedding call, does not raise, and returns the empty list
C15_EmptyInputNoCalls ==
    (Len(articles) = 0 /\ num_workers >= 1) =>
        /\ split_calls = 0
        /\ embedding_calls = 0
        /\ p_pc \notin {"submit", "collect"}
        /\ PipeEnded => p_out = PReturn(<<>>)

C15_Witness ==
    /\ Len(articles) = 0
    /\ num_workers = 2
    /\ p_pc = "returned"
    /\ p_out = PReturn(<<>>)

\* the work unit of article d has been taken up by a pool thread
Started(d) == unit[d].st \in {"running", "finished", "failed"}

\* C17: at most num_workers work units are in progress at any moment; with
\* num_workers = 1 an article is taken up only when every article submitted
\* before it has ended
C17_BoundedWorkers ==
    /\ Cardinality(Running) <= num_workers
    /\ num_workers = 1 =>
          /\ \A d, e \in Docs : (e < d /\ Started(d)) => Ended(e)
          /\ ~overtaken

C17_Witness ==
    /\ num_workers = 2
    /\ Cardinality(Running) = 2
    /\ Queued # {}

\* C20: when embed_pmc_articles has returned or raised, no work unit it
\* submitted is queued or running: no Chunker call and no embedding call of
\* the batch is still to come
C20_QuiescentAtExit ==
    PipeEnded => /\ Queued = {}
                 /\ Running = {}

C20_Witness ==
    /\ p_pc = "raised"
    /\ ~warn_on_failure
    /\ next_i < Len(articles)
    /\ \A d \in Docs : Ended(d)
    /\ unit[Len(articles)].st = "finished"
    /\ articles[Len(articles)] >= 1

\* C18: no cancellation.  Every submitted work unit eventually ends (it
\* finishes, or fails when an embedding call of it gave up), whatever has
\* happened to the other work units, and embed_pmc_articles eventually
\* returns or raises
C18_NoCancellation ==
    /\ \A d \in 1..MaxDocs :
          (d \in Docs /\ (d \in Queued \/ d \in Running)) ~> (d \in Docs /\ Ended(d))
    /\ (p_pc = "start") ~> PipeEnded

\* one thread, fail-hard: the first article failed, and the second, which
\* can only have run after that, finished its chunks before the call raised
C18_Witness ==
    /\ p_pc = "raised"
    /\ ~warn_on_failure
    /\ num_workers = 1
    /\ Len(articles) >= 2
    /\ unit[1].st = "failed"
    /\ unit[2].st = "finished"
    /\ articles[2] >= 1

----------------------------------------------------------------------------
(* Properties of the chat completion wrapper (SpecChat) *)

\* the mode has been selected
ModeSelected == ch_pc \in {"call", "parse", "done"} /\ response_format # "str"

====
